---------------------------- MODULE Spec2Model ----------------------------
(* A model of weather.py: the airport index (update_airports,            *)
(* load_airports, save_airports, add_custom_airport, search_airports,    *)
(* the lookup at the head of get_weather_by_airport) and the weather     *)
(* code classifier (weather_code_to_emoji).                              *)
(*                                                                       *)
(* Python strings are sequences of one-character strings, so that        *)
(* str.upper, str.lower, str.strip, " ".join and the `in` substring test *)
(* are computed character by character.  Python dicts are sequences of   *)
(* key/value pairs without repeated keys, in insertion order.            *)
EXTENDS Integers, Sequences, FiniteSets, TLC

(* ------------------------------------------------------------------ *)
(* Bounds of the model                                                  *)
(* ------------------------------------------------------------------ *)

\* rows one update_airports pass reads from the CSV feed
MaxRows == 2

\* add_custom_airport runs in one behaviour
MaxAdds == 1

\* largest weather code handed to the classifier
MaxCode == 100

\* the longest forecast series drawn from the sample days
MaxDays == 2

\* the largest --days value
MaxDaysArg == 40

(* ------------------------------------------------------------------ *)
(* Strings                                                              *)
(* ------------------------------------------------------------------ *)

Lowers == <<"a", "b", "c", "d", "e", "f", "g", "h", "i", "j", "k", "l", "m",
            "n", "o", "p", "q", "r", "s", "t", "u", "v", "w", "x", "y", "z">>

Uppers == <<"A", "B", "C", "D", "E", "F", "G", "H", "I", "J", "K", "L", "M",
            "N", "O", "P", "Q", "R", "S", "T", "U", "V", "W", "X", "Y", "Z">>

Whitespace == {" ", "\t"}

UpperTable ==
    [c \in {Lowers[i] : i \in 1..Len(Lowers)} |->
        Uppers[CHOOSE i \in 1..Len(Lowers) : Lowers[i] = c]]

LowerTable ==
    [c \in {Uppers[i] : i \in 1..Len(Uppers)} |->
        Lowers[CHOOSE i \in 1..Len(Uppers) : Uppers[i] = c]]

UpperCh(c) == IF c \in DOMAIN UpperTable THEN UpperTable[c] ELSE c

LowerCh(c) == IF c \in DOMAIN LowerTable THEN LowerTable[c] ELSE c

\* str.upper()
Upper(s) == [i \in 1..Len(s) |-> UpperCh(s[i])]

\* str.lower()
Lower(s) == [i \in 1..Len(s) |-> LowerCh(s[i])]

RECURSIVE LStrip(_)
LStrip(s) == IF s # <<>> /\ Head(s) \in Whitespace THEN LStrip(Tail(s)) ELSE s

RECURSIVE RStrip(_)
RStrip(s) ==
    IF s # <<>> /\ s[Len(s)] \in Whitespace
    THEN RStrip(SubSeq(s, 1, Len(s) - 1))
    ELSE s

\* str.strip()
Strip(s) == RStrip(LStrip(s))

\* the Python test `q in h` on two strings
IsSubstr(q, h) ==
    \E i \in 0..(Len(h) - Len(q)) : SubSeq(h, i + 1, i + Len(q)) = q

\* " ".join(parts)
RECURSIVE JoinSp(_)
JoinSp(parts) ==
    IF parts = <<>> THEN <<>>
    ELSE IF Len(parts) = 1 THEN parts[1]
    ELSE parts[1] \o <<" ">> \o JoinSp(Tail(parts))

\* Python's None where a string is expected (a CSV field DictReader could
\* not fill, a dict.get without a default)
None == <<"<None>">>

(* ------------------------------------------------------------------ *)
(* Floats                                                               *)
(* ------------------------------------------------------------------ *)

\* A Python float: a number, nan or inf.  A JSON value is a float, a JSON
\* string or null.
Num(n) == [t |-> "num", v |-> n]
NaN == [t |-> "nan"]
Inf == [t |-> "inf"]
JStr(s) == [t |-> "str", v |-> s]
JNull == [t |-> "null"]

Digits == <<"0", "1", "2", "3", "4", "5", "6", "7", "8", "9">>

IsDigit(c) == \E i \in 1..Len(Digits) : Digits[i] = c

DigitVal(c) == (CHOOSE i \in 1..Len(Digits) : Digits[i] = c) - 1

RECURSIVE DecVal(_)
DecVal(s) ==
    IF s = <<>> THEN 0
    ELSE 10 * DecVal(SubSeq(s, 1, Len(s) - 1)) + DigitVal(s[Len(s)])

\* float(s) of a string: surrounding whitespace is ignored, "nan", "inf"
\* and "infinity" are accepted in any letter case, and anything that is
\* no number raises ValueError.  Of the numbers, the unsigned decimal
\* integers are modelled; the inputs hold no other.
ParseFloatStr(s) ==
    LET b == Lower(Strip(s)) IN
    IF b = <<"n", "a", "n">> THEN [ok |-> TRUE, val |-> NaN]
    ELSE IF b \in {<<"i", "n", "f">>, <<"i", "n", "f", "i", "n", "i", "t", "y">>}
         THEN [ok |-> TRUE, val |-> Inf]
    ELSE IF b # <<>> /\ \A i \in 1..Len(b) : IsDigit(b[i])
         THEN [ok |-> TRUE, val |-> Num(DecVal(b))]
    ELSE [ok |-> FALSE]

\* float(x) of a CSV field: None raises TypeError
ParseFloatField(x) == IF x = None THEN [ok |-> FALSE] ELSE ParseFloatStr(x)

\* float(x) of a JSON value
ParseFloatJson(x) ==
    IF x.t \in {"num", "nan", "inf"} THEN [ok |-> TRUE, val |-> x]
    ELSE IF x.t = "str" THEN ParseFloatStr(x.v)
    ELSE [ok |-> FALSE]

(* ------------------------------------------------------------------ *)
(* Dicts                                                                *)
(* ------------------------------------------------------------------ *)

EmptyDict == <<>>

DictKeys(d) == {d[i].k : i \in 1..Len(d)}

DictHas(d, key) == \E i \in 1..Len(d) : d[i].k = key

DictGet(d, key) == d[CHOOSE i \in 1..Len(d) : d[i].k = key].v

\* d[key] = val: an existing key keeps its place in the iteration order
DictSet(d, key, val) ==
    IF DictHas(d, key)
    THEN [i \in 1..Len(d) |-> IF d[i].k = key THEN [k |-> key, v |-> val] ELSE d[i]]
    ELSE Append(d, [k |-> key, v |-> val])

\* entry.get(field, default) on a dict given as a record
Get(e, field, default) == IF field \in DOMAIN e THEN e[field] ELSE default

(* ------------------------------------------------------------------ *)
(* airports.json                                                        *)
(* ------------------------------------------------------------------ *)

\* A value of the airports mapping, in memory or in the JSON file: a dict
\* (a record of its fields), a list, or anything else.
DictEntry(d) == [t |-> "dict", d |-> d]
ListEntry(items) == [t |-> "list", items |-> items]
OtherEntry == [t |-> "other"]

\* The file: absent, not parseable as a JSON object, or a JSON object.
FileAbsent == [kind |-> "absent"]
FileGarbage == [kind |-> "garbage"]
FileJson(data) == [kind |-> "json", data |-> data]

\* The dict load_airports stores for a dict entry; raises when float()
\* of lat or lon does.
LoadDictEntry(e) ==
    LET lat == ParseFloatJson(Get(e, "lat", Num(0)))
        lon == ParseFloatJson(Get(e, "lon", Num(0)))
    IN  IF ~lat.ok \/ ~lon.ok THEN [ok |-> FALSE]
        ELSE [ok |-> TRUE,
              val |-> DictEntry(
                [name |-> Get(e, "name", <<>>),
                 city |-> Get(e, "city", <<>>),
                 lat |-> lat.val,
                 lon |-> lon.val,
                 icao_code |-> Get(e, "icao_code", <<>>),
                 iata_code |-> Get(e, "iata_code", <<>>),
                 iso_country |-> Get(e, "iso_country", <<>>),
                 iso_region |-> Get(e, "iso_region", <<>>),
                 elevation_ft |-> Get(e, "elevation_ft", JNull),
                 type |-> Get(e, "type", <<>>),
                 scheduled_service |-> Get(e, "scheduled_service", <<>>),
                 local_code |-> Get(e, "local_code", <<>>),
                 gps_code |-> Get(e, "gps_code", <<>>),
                 faa_lid |-> Get(e, "faa_lid", Get(e, "local_code", <<>>))])]

\* The dict load_airports stores for a list of at least four items.
LoadListEntry(items) ==
    LET lat == ParseFloatJson(items[3])
        lon == ParseFloatJson(items[4])
    IN  IF ~lat.ok \/ ~lon.ok THEN [ok |-> FALSE]
        ELSE [ok |-> TRUE,
              val |-> DictEntry(
                [name |-> items[1],
                 city |-> items[2],
                 lat |-> lat.val,
                 lon |-> lon.val,
                 icao_code |-> <<>>,
                 iata_code |-> <<>>,
                 iso_country |-> <<>>,
                 iso_region |-> <<>>,
                 elevation_ft |-> JNull,
                 type |-> <<>>,
                 scheduled_service |-> <<>>,
                 local_code |-> <<>>,
                 gps_code |-> <<>>,
                 faa_lid |-> <<>>])]

\* The loop of load_airports over data.items(), from item i on, with the
\* dict built so far; ok is FALSE when an entry raises.
RECURSIVE LoadItems(_, _, _)
LoadItems(data, i, acc) ==
    IF i > Len(data) THEN [ok |-> TRUE, airports |-> acc]
    ELSE LET code_upper == Upper(data[i].k)
             entry == data[i].v
         IN  IF entry.t = "dict"
             THEN LET r == LoadDictEntry(entry.d)
                  IN  IF r.ok
                      THEN LoadItems(data, i + 1, DictSet(acc, code_upper, r.val))
                      ELSE [ok |-> FALSE]
             ELSE IF entry.t = "list" /\ Len(entry.items) >= 4
             THEN LET r == LoadListEntry(entry.items)
                  IN  IF r.ok
                      THEN LoadItems(data, i + 1, DictSet(acc, code_upper, r.val))
                      ELSE [ok |-> FALSE]
             ELSE LoadItems(data, i + 1, acc)

\* load_airports raised inside its try block
LoadFails(f) ==
    \/ f.kind = "garbage"
    \/ f.kind = "json" /\ ~LoadItems(f.data, 1, EmptyDict).ok

\* load_airports(): the dict of the file, and {} when the file is absent
\* or anything raised while reading it
load_airports(f) ==
    IF f.kind = "json" /\ ~LoadFails(f)
    THEN LoadItems(f.data, 1, EmptyDict).airports
    ELSE EmptyDict

\* The JSON object save_airports writes for one entry.
SaveEntry(entry) ==
    IF entry.t = "dict"
    THEN LET e == entry.d
         IN  DictEntry(
               [name |-> Get(e, "name", <<>>),
                city |-> Get(e, "city", <<>>),
                lat |-> Get(e, "lat", Num(0)),
                lon |-> Get(e, "lon", Num(0)),
                icao_code |-> Get(e, "icao_code", <<>>),
                iata_code |-> Get(e, "iata_code", <<>>),
                iso_country |-> Get(e, "iso_country", <<>>),
                iso_region |-> Get(e, "iso_region", <<>>),
                elevation_ft |-> Get(e, "elevation_ft", JNull),
                type |-> Get(e, "type", <<>>),
                scheduled_service |-> Get(e, "scheduled_service", <<>>),
                local_code |-> Get(e, "local_code", <<>>),
                gps_code |-> Get(e, "gps_code", <<>>),
                faa_lid |-> Get(e, "faa_lid", Get(e, "local_code", <<>>))])
    ELSE DictEntry(
               [name |-> entry.items[1],
                city |-> entry.items[2],
                lat |-> entry.items[3],
                lon |-> entry.items[4],
                icao_code |-> <<>>,
                iata_code |-> <<>>,
                iso_country |-> <<>>,
                iso_region |-> <<>>,
                elevation_ft |-> JNull,
                type |-> <<>>,
                scheduled_service |-> <<>>,
                local_code |-> <<>>,
                gps_code |-> <<>>,
                faa_lid |-> <<>>])

\* The loop of save_airports over airports.items().
RECURSIVE SaveItems(_, _, _)
SaveItems(airports, i, data) ==
    IF i > Len(airports) THEN data
    ELSE SaveItems(airports, i + 1,
                   DictSet(data, Upper(airports[i].k), SaveEntry(airports[i].v)))

\* save_airports(airports): the file it leaves
save_airports(airports) == FileJson(SaveItems(airports, 1, EmptyDict))

(* ------------------------------------------------------------------ *)
(* update_airports: one CSV row                                         *)
(* ------------------------------------------------------------------ *)

\* The fields of a row on which the loop body calls .upper() or .strip()
StrFields == {"icao_code", "iata_code", "name", "municipality", "iso_country",
              "iso_region", "local_code", "gps_code", "type", "scheduled_service"}

\* elevation_ft of a row that reached the conversion: int(float(x)), None
\* for None, "" and what raises TypeError or ValueError (nan included);
\* int(inf) raises OverflowError, which that except clause does not catch.
ElevationRaises(x) ==
    /\ x \notin {None, <<>>}
    /\ ParseFloatStr(x).ok
    /\ ParseFloatStr(x).val = Inf

ElevationOf(x) ==
    IF x \in {None, <<>>} THEN JNull
    ELSE LET r == ParseFloatStr(x)
         IN  IF r.ok /\ r.val.t = "num" THEN r.val ELSE JNull

\* the row is skipped by one of the two `continue` statements
RowSkipped(row) ==
    \/ ~ParseFloatField(row.latitude_deg).ok
    \/ ~ParseFloatField(row.longitude_deg).ok
    \/ Strip(row.name) = <<>>

\* the loop body raises, which ends the pass in the outer except clause
RowRaises(row) ==
    \/ \E f \in StrFields : row[f] = None
    \/ ~RowSkipped(row) /\ ElevationRaises(row.elevation_ft)

\* the dict the loop body stores under each key of the row
RowRecord(row) ==
    DictEntry(
      [name |-> Strip(row.name),
       city |-> Strip(row.municipality),
       lat |-> ParseFloatField(row.latitude_deg).val,
       lon |-> ParseFloatField(row.longitude_deg).val,
       icao_code |-> Upper(row.icao_code),
       iata_code |-> Upper(row.iata_code),
       iso_country |-> Strip(row.iso_country),
       iso_region |-> Strip(row.iso_region),
       elevation_ft |-> ElevationOf(row.elevation_ft),
       type |-> Strip(row.type),
       scheduled_service |-> Strip(row.scheduled_service),
       local_code |-> Strip(row.local_code),
       gps_code |-> Strip(row.gps_code),
       faa_lid |-> Strip(row.local_code)])

\* airports[key] = rec, as the four `if` statements of the loop body do it
Register(airports, key, rec) == DictSet(airports, key, rec)

\* RegisterRow with the IATA key forgotten
RegisterRowNoIata(airports, row) ==
    LET icao == Upper(row.icao_code)
        iata == Upper(row.iata_code)
        local_code == Strip(row.local_code)
        gps_code == Strip(row.gps_code)
        rec == RowRecord(row)
        a1 == IF icao # <<>> THEN Register(airports, icao, rec) ELSE airports
        a3 == IF local_code # <<>> /\ local_code \notin {icao, iata}
              THEN Register(a1, local_code, rec) ELSE a1
        a4 == IF gps_code # <<>> /\ gps_code \notin {icao, iata, local_code}
              THEN Register(a3, gps_code, rec) ELSE a3
    IN  a4

\* the four `if` statements of the loop body, for a row that is neither
\* skipped nor raises
RegisterRow(airports, row) ==
    LET icao == Upper(row.icao_code)
        iata == Upper(row.iata_code)
        local_code == Strip(row.local_code)
        gps_code == Strip(row.gps_code)
        rec == RowRecord(row)
        a1 == IF icao # <<>> THEN Register(airports, icao, rec) ELSE airports
        a2 == IF iata # <<>> /\ iata # icao THEN Register(a1, iata, rec) ELSE a1
        a3 == IF local_code # <<>> /\ local_code \notin {icao, iata}
              THEN Register(a2, local_code, rec) ELSE a2
        a4 == IF gps_code # <<>> /\ gps_code \notin {icao, iata, local_code}
              THEN Register(a3, gps_code, rec) ELSE a3
    IN  a4

(* ------------------------------------------------------------------ *)
(* Lookup and search                                                    *)
(* ------------------------------------------------------------------ *)

\* the result of a lookup that found nothing (Python's None)
NotFound == [t |-> "none"]

\* `not airport` is false for every non-empty dict
Truthy(entry) == entry.t = "dict" /\ DOMAIN entry.d # {}

\* Lookup without the .upper()
LookupCaseSensitive(airports, airport_code) ==
    IF DictHas(airports, airport_code)
    THEN DictGet(airports, airport_code)
    ELSE NotFound

\* airports.get(airport_code.upper())
Lookup(airports, airport_code) ==
    IF DictHas(airports, Upper(airport_code))
    THEN DictGet(airports, Upper(airport_code))
    ELSE NotFound

\* The head of get_weather_by_airport: the airport it goes on with, or
\* NotFound when it prints "Unknown airport code" and returns.
ResolveAirport(f, airport_code) ==
    LET airport == Lookup(load_airports(f), airport_code)
    IN  IF airport # NotFound /\ Truthy(airport) THEN airport ELSE NotFound

\* Haystack without the code
HaystackNoCode(code, entry) ==
    Lower(JoinSp(<<Get(entry, "name", <<>>),
                   Get(entry, "city", <<>>),
                   Get(entry, "iso_country", <<>>),
                   Get(entry, "iso_region", <<>>),
                   Get(entry, "type", <<>>),
                   Get(entry, "scheduled_service", <<>>),
                   Get(entry, "local_code", <<>>),
                   Get(entry, "gps_code", <<>>),
                   Get(entry, "faa_lid", <<>>)>>))

\* the haystack search_airports builds for one item
Haystack(code, entry) ==
    Lower(JoinSp(<<code,
                   Get(entry, "name", <<>>),
                   Get(entry, "city", <<>>),
                   Get(entry, "iso_country", <<>>),
                   Get(entry, "iso_region", <<>>),
                   Get(entry, "type", <<>>),
                   Get(entry, "scheduled_service", <<>>),
                   Get(entry, "local_code", <<>>),
                   Get(entry, "gps_code", <<>>),
                   Get(entry, "faa_lid", <<>>)>>))

\* the loop of search_airports: the items it prints, in iteration order
RECURSIVE SearchItems(_, _, _)
SearchItems(airports, query, i) ==
    IF i > Len(airports) THEN <<>>
    ELSE IF IsSubstr(Lower(query), Haystack(airports[i].k, airports[i].v.d))
         THEN <<airports[i]>> \o SearchItems(airports, query, i + 1)
         ELSE SearchItems(airports, query, i + 1)

(* ------------------------------------------------------------------ *)
(* add_custom_airport                                                   *)
(* ------------------------------------------------------------------ *)

\* the dict add_custom_airport stores under the code
CustomRecord(code, name, city, lat, lon) ==
    DictEntry(
      [name |-> name,
       city |-> city,
       lat |-> lat,
       lon |-> lon,
       icao_code |-> IF Len(code) = 4 THEN code ELSE <<>>,
       iata_code |-> IF Len(code) = 3 THEN code ELSE <<>>,
       iso_country |-> <<>>,
       iso_region |-> <<>>,
       elevation_ft |-> JNull,
       type |-> <<"c", "u", "s", "t", "o", "m", "_", "a", "i", "r", "p", "o", "r", "t">>,
       scheduled_service |-> <<>>])

\* Upsert into a fresh dict instead of the loaded one
UpsertFresh(f, code, rec) == DictSet(EmptyDict, code, rec)

\* airports = load_airports(); airports[code] = rec
Upsert(f, code, rec) == DictSet(load_airports(f), code, rec)

(* ------------------------------------------------------------------ *)
(* weather_code_to_emoji                                                *)
(* ------------------------------------------------------------------ *)

\* the code points of the emoji the labels start with
Sun == <<"U+2600", "U+FE0F">>
SunCloud == <<"U+26C5">>
FogIcon == <<"U+1F32B", "U+FE0F">>
DrizzleIcon == <<"U+1F326", "U+FE0F">>
RainIcon == <<"U+1F327", "U+FE0F">>
SnowIcon == <<"U+2744", "U+FE0F">>
StormIcon == <<"U+26C8", "U+FE0F">>
QuestionIcon == <<"U+2753">>

Clear == <<"C", "l", "e", "a", "r">>
PartlyCloudy == <<"P", "a", "r", "t", "l", "y", " ", "C", "l", "o", "u", "d", "y">>
Fog == <<"F", "o", "g">>
Drizzle == <<"D", "r", "i", "z", "z", "l", "e">>
Rain == <<"R", "a", "i", "n">>
Snow == <<"S", "n", "o", "w">>
Thunderstorm == <<"T", "h", "u", "n", "d", "e", "r", "s", "t", "o", "r", "m">>
Unknown == <<"U", "n", "k", "n", "o", "w", "n">>

\* "<icon> <description>" if with_emoji else "<description>"
Label(icon, desc, with_emoji) == IF with_emoji THEN icon \o <<" ">> \o desc ELSE desc

\* weather_code_to_emoji with 77 missing from the snow codes
weather_code_to_emoji_no77(code, with_emoji) ==
    IF code = 0 THEN Label(Sun, Clear, with_emoji)
    ELSE IF code \in {1, 2, 3} THEN Label(SunCloud, PartlyCloudy, with_emoji)
    ELSE IF code \in {45, 48} THEN Label(FogIcon, Fog, with_emoji)
    ELSE IF code \in {51, 53, 55, 56, 57} THEN Label(DrizzleIcon, Drizzle, with_emoji)
    ELSE IF code \in {61, 63, 65, 66, 67, 80, 81, 82} THEN Label(RainIcon, Rain, with_emoji)
    ELSE IF code \in {71, 73, 75, 85, 86} THEN Label(SnowIcon, Snow, with_emoji)
    ELSE IF code \in {95, 96, 99} THEN Label(StormIcon, Thunderstorm, with_emoji)
    ELSE Label(QuestionIcon, Unknown, with_emoji)

\* weather_code_to_emoji(code, with_emoji) for an int code
weather_code_to_emoji(code, with_emoji) ==
    IF code = 0 THEN Label(Sun, Clear, with_emoji)
    ELSE IF code \in {1, 2, 3} THEN Label(SunCloud, PartlyCloudy, with_emoji)
    ELSE IF code \in {45, 48} THEN Label(FogIcon, Fog, with_emoji)
    ELSE IF code \in {51, 53, 55, 56, 57} THEN Label(DrizzleIcon, Drizzle, with_emoji)
    ELSE IF code \in {61, 63, 65, 66, 67, 80, 81, 82} THEN Label(RainIcon, Rain, with_emoji)
    ELSE IF code \in {71, 73, 75, 77, 85, 86} THEN Label(SnowIcon, Snow, with_emoji)
    ELSE IF code \in {95, 96, 99} THEN Label(StormIcon, Thunderstorm, with_emoji)
    ELSE Label(QuestionIcon, Unknown, with_emoji)

\* a JSON number n/d that is no integer (d > 1, d does not divide n)
Frac(n, d) == [t |-> "frac", n |-> n, d |-> d]

\* int(s) of a string: surrounding whitespace is ignored, one sign is
\* accepted, and anything but decimal digits raises ValueError
IntOfStr(s) ==
    LET b == Strip(s)
        signed == b # <<>> /\ b[1] \in {"+", "-"}
        d == IF signed THEN Tail(b) ELSE b
    IN  IF d # <<>> /\ \A i \in 1..Len(d) : IsDigit(d[i])
        THEN [ok |-> TRUE, val |-> IF signed /\ b[1] = "-" THEN -DecVal(d) ELSE DecVal(d)]
        ELSE [ok |-> FALSE, exc |-> "ValueError"]

\* int(code) of a JSON value: a float loses its fraction, towards zero;
\* TypeError for null, arrays and objects, ValueError for nan and for
\* strings that are no integer, OverflowError for an infinity
IntOf(x) ==
    IF x.t = "num" THEN [ok |-> TRUE, val |-> x.v]
    ELSE IF x.t = "frac"
         THEN [ok |-> TRUE,
               val |-> IF x.n >= 0 THEN x.n \div x.d ELSE -((-x.n) \div x.d)]
    ELSE IF x.t = "nan" THEN [ok |-> FALSE, exc |-> "ValueError"]
    ELSE IF x.t = "inf" THEN [ok |-> FALSE, exc |-> "OverflowError"]
    ELSE IF x.t = "str" THEN IntOfStr(x.v)
    ELSE [ok |-> FALSE, exc |-> "TypeError"]

\* weather_code_to_emoji(code, with_emoji) for a code of any type: the
\* try around int(code) catches TypeError and ValueError only
weather_code_to_emoji_call(code, with_emoji) ==
    LET c == IntOf(code) IN
    IF c.ok THEN [kind |-> "returned", v |-> weather_code_to_emoji(c.val, with_emoji)]
    ELSE IF c.exc \in {"TypeError", "ValueError"}
         THEN [kind |-> "returned", v |-> Label(QuestionIcon, Unknown, with_emoji)]
    ELSE [kind |-> "raised", exc |-> c.exc]

(* ------------------------------------------------------------------ *)
(* Icon and description of a weather string                             *)
(* ------------------------------------------------------------------ *)

\* the code points of general category So, Sm, Sc and Sk the model uses
SymbolCodePoints ==
    {"U+2600", "U+26C5", "U+1F32B", "U+1F326", "U+1F327", "U+2744", "U+26C8",
     "U+2753", "U+00B0", "+", "$", "^"}

\* unicodedata.category(ch)[0]
Category(ch) ==
    IF ch \in SymbolCodePoints THEN "S"
    ELSE IF ch = "U+FE0F" THEN "M"
    ELSE IF ch \in DOMAIN UpperTable \cup DOMAIN LowerTable THEN "L"
    ELSE IF IsDigit(ch) THEN "N"
    ELSE IF ch = " " THEN "Z"
    ELSE IF ch = "\t" THEN "C"
    ELSE "P"

\* the length of the longest prefix of s without a character of stops
RECURSIVE PrefixLen(_, _)
PrefixLen(s, stops) ==
    IF s = <<>> \/ Head(s) \in stops THEN 0 ELSE 1 + PrefixLen(Tail(s), stops)

\* str.split(): the runs between whitespace, none of them empty
RECURSIVE SplitWs(_)
SplitWs(s) ==
    LET t == LStrip(s)
        k == PrefixLen(t, Whitespace)
    IN  IF t = <<>> THEN <<>>
        ELSE <<SubSeq(t, 1, k)>> \o SplitWs(SubSeq(t, k + 1, Len(t)))

\* the loop over enumerate(s) from idx on: the index of the first character
\* that is no symbol, 0 when the loop ends without one
RECURSIVE Enumerate(_, _)
Enumerate(s, idx) ==
    IF idx >= Len(s) THEN 0
    ELSE IF Category(s[idx + 1]) # "S" THEN idx
    ELSE Enumerate(s, idx + 1)

\* split_idx of a loop that skips the first character
split_idx_skip(s) == Enumerate(s, 1)

\* split_idx after the loop over enumerate(s)
split_idx(s) == Enumerate(s, 0)

\* weather_str as the branches on len(parts) leave it
Respaced(weather_str) ==
    LET parts == SplitWs(weather_str) IN
    IF Len(parts) > 1 THEN parts[1] \o <<" ">> \o JoinSp(Tail(parts))
    ELSE IF Len(parts) = 1
         THEN LET s == parts[1]
                  k == split_idx(s)
                  icon == SubSeq(s, 1, k)
                  desc == SubSeq(s, k + 1, Len(s))
              IN  IF icon = <<>> THEN desc ELSE icon \o <<" ">> \o desc
    ELSE weather_str

\* the split that never finds an icon
IconDescNoIcon(weather_str) == [icon |-> <<>>, desc |-> Respaced(weather_str)]

\* the icon and the description the loop appends for a weather string
IconDesc(weather_str) ==
    LET w == Respaced(weather_str)
        k == PrefixLen(w, {" "})
    IN  IF \E i \in 1..Len(w) : w[i] = " "
        THEN [icon |-> SubSeq(w, 1, k), desc |-> SubSeq(w, k + 2, Len(w))]
        ELSE [icon |-> <<>>, desc |-> w]

(* ------------------------------------------------------------------ *)
(* The forecast table                                                   *)
(* ------------------------------------------------------------------ *)

pad_weather == 22
pad_date == 12
pad_temp == 8
pad_precip == 8
pad_sun == 8
max_icon_width == 6

Min2(a, b) == IF a < b THEN a ELSE b

Max2(a, b) == IF a > b THEN a ELSE b

\* max(...) of a non-empty collection of numbers
MaxOf(S) == CHOOSE m \in S : \A x \in S : x <= m

\* ' ' * k
Spaces(k) == [i \in 1..k |-> " "]

\* the clamp without its lower end
ClampDaysNoFloor(d) == Min2(d, 16)

\* days = max(1, min(args.days, 16)) in main
ClampDays(d) == Max2(1, Min2(d, 16))

\* '°F' if temp_unit == 'F' else '°C'
temp_symbol(temp_unit) == IF temp_unit = "F" THEN <<"U+00B0", "F">> ELSE <<"U+00B0", "C">>

\* wcwidth(ch): -1 for a control character, 0 for a combining mark, 2 for
\* the code points of East Asian Width W
wcwidth(ch) ==
    IF ch = "\t" THEN -1
    ELSE IF ch = "U+FE0F" THEN 0
    ELSE IF ch \in {"U+26C5", "U+2753"} THEN 2
    ELSE 1

\* wcswidth(text), from character idx on with width columns counted so
\* far; last is the last character measured with a positive width (<<>>
\* for none).  A wcwidth that knows emoji sequences adds one column for
\* U+FE0F after an emoji that is narrow without it, an older one measures
\* U+FE0F as zero columns.
RECURSIVE wcswidth(_, _, _, _, _)
wcswidth(text, idx, last, width, sequences) ==
    IF idx > Len(text) THEN width
    ELSE IF text[idx] = "U+FE0F" /\ last # <<>>
         THEN wcswidth(text, idx + 1, IF sequences THEN <<>> ELSE last,
                       IF sequences /\ last[1] \in {"U+2600", "U+2744", "U+26C8",
                                                    "U+1F32B", "U+1F326", "U+1F327"}
                       THEN width + 1 ELSE width,
                       sequences)
    ELSE IF wcwidth(text[idx]) < 0 THEN wcwidth(text[idx])
    ELSE wcswidth(text, idx + 1,
                  IF wcwidth(text[idx]) > 0 THEN <<text[idx]>> ELSE last,
                  width + wcwidth(text[idx]), sequences)

\* display_width that always counts characters
display_len(text, sequences) == Len(text)

\* display_width(text)
display_width(text, sequences) ==
    LET width == wcswidth(text, 1, <<>>, 0, sequences) IN
    IF width < 0 THEN Len(text) ELSE width

\* cell with ' ' * (width - disp) after it, or before it if right is set
Pad(cell, width, right, sequences) ==
    LET disp == display_width(cell, sequences) IN
    IF disp >= width THEN cell
    ELSE IF right THEN Spaces(width - disp) \o cell
    ELSE cell \o Spaces(width - disp)

\* f"{label:<{width}}", or f"{label:>{width}}" if right is set: padding by
\* the number of characters
Format(label, width, right) ==
    IF Len(label) >= width THEN label
    ELSE IF right THEN Spaces(width - Len(label)) \o label
    ELSE label \o Spaces(width - Len(label))

\* sunrises[i][-5:] if i < len(sunrises) and sunrises[i] else '' (i from 1)
SunCell(suns, i) ==
    IF i <= Len(suns) /\ suns[i] # None /\ suns[i] # <<>>
    THEN SubSeq(suns[i], Max2(1, Len(suns[i]) - 4), Len(suns[i])) ELSE <<>>

\* the labels of the header line
Headers ==
    [date |-> <<"D", "a", "t", "e">>,
     icon |-> <<"W", "x">>,
     desc |-> <<"W", "e", "a", "t", "h", "e", "r">>,
     tmax |-> <<"H", "i", "g", "h">>,
     tmin |-> <<"L", "o", "w">>,
     precip |-> <<"P", "r", "e", "c", "i", "p">>,
     sunrise |-> <<"S", "u", "n", "r", "i", "s", "e">>,
     sunset |-> <<"S", "u", "n", "s", "e", "t">>]

\* the maximum without the pad_ minimum
ColumnWidthNoPad(cells, column, pad, sequences) ==
    MaxOf({display_width(cells[i][column], sequences) : i \in 1..Len(cells)}
          \cup {display_width(Headers[column], sequences)})

\* max([display_width(c) for c in <column>_strs] + [pad, display_width(header)])
ColumnWidth(cells, column, pad, sequences) ==
    MaxOf({display_width(cells[i][column], sequences) : i \in 1..Len(cells)}
          \cup {pad, display_width(Headers[column], sequences)})

\* the row that drops the icon although icons are shown
RowCellsNoIcon(cells, no_icons) ==
    <<cells.date, cells.desc, cells.tmax, cells.tmin, cells.precip,
      cells.sunrise, cells.sunset>>

\* the cells of one printed line: without the icon if no_emoji
RowCells(cells, no_icons) ==
    IF no_icons
    THEN <<cells.date, cells.desc, cells.tmax, cells.tmin, cells.precip,
           cells.sunrise, cells.sunset>>
    ELSE <<cells.date, cells.icon, cells.desc, cells.tmax, cells.tmin,
           cells.precip, cells.sunrise, cells.sunset>>

\* the first loop over range(n): the strings appended for each day
ForecastCells(daily, n, temp_unit, no_icons) ==
    [i \in 1..n |->
        LET icon_desc == IconDesc(weather_code_to_emoji(daily.weathercode[i], ~no_icons))
        IN  [icon |-> icon_desc.icon,
             desc |-> icon_desc.desc,
             date |-> daily.time[i],
             tmax |-> daily.tmax[i] \o temp_symbol(temp_unit),
             tmin |-> daily.tmin[i] \o temp_symbol(temp_unit),
             precip |-> daily.precip[i] \o <<"m", "m">>,
             sunrise |-> SunCell(daily.sunrise, i),
             sunset |-> SunCell(daily.sunset, i)]]

\* max_icon_width to max_sunset_width
ForecastWidths(cells, sequences) ==
    [icon |-> max_icon_width,
     desc |-> ColumnWidth(cells, "desc", pad_weather, sequences),
     date |-> ColumnWidth(cells, "date", pad_date, sequences),
     tmax |-> ColumnWidth(cells, "tmax", pad_temp, sequences),
     tmin |-> ColumnWidth(cells, "tmin", pad_temp, sequences),
     precip |-> ColumnWidth(cells, "precip", pad_precip, sequences),
     sunrise |-> ColumnWidth(cells, "sunrise", pad_sun, sequences),
     sunset |-> ColumnWidth(cells, "sunset", pad_sun, sequences)]

\* the header line: Date, Wx and Weather to the left, the others to the right
HeaderCells(width) ==
    [c \in DOMAIN Headers |->
        Format(Headers[c], width[c], c \notin {"date", "icon", "desc"})]

\* the second loop over range(n): the cells of a day padded to the width
\* of their columns, icon, description and date on the right
PadCells(cell, width, sequences) ==
    [c \in DOMAIN Headers |->
        Pad(cell[c], width[c], c \notin {"date", "icon", "desc"}, sequences)]

\* the header, the dashes under it and the rows of the cells of the days
ForecastTable(cells, width, no_icons, sequences) ==
    [kind |-> "table",
     cells |-> cells,
     width |-> width,
     header |-> RowCells(HeaderCells(width), no_icons),
     rule |-> IF no_icons
              THEN width.date + width.desc + width.tmax + width.tmin
                   + width.precip + width.sunrise + width.sunset + 6
              ELSE width.date + width.icon + width.desc + width.tmax + width.tmin
                   + width.precip + width.sunrise + width.sunset + 7,
     rows |-> [i \in 1..Len(cells) |->
                 RowCells(PadCells(cells[i], width, sequences), no_icons)]]

\* the forecast block of get_weather_by_airport: daily is the 'daily'
\* object of the response, a record of lists; days is the clamped --days
Forecast(daily, days, temp_unit, no_icons, sequences) ==
    ForecastTable(
        ForecastCells(daily, Min2(days, Len(daily.time)), temp_unit, no_icons),
        ForecastWidths(
            ForecastCells(daily, Min2(days, Len(daily.time)), temp_unit, no_icons),
            sequences),
        no_icons, sequences)

(* ------------------------------------------------------------------ *)
(* Favorites                                                            *)
(* ------------------------------------------------------------------ *)

\* favorites.json: absent, or the JSON list the program wrote
FavAbsent == [kind |-> "absent"]

FavJson(list) == [kind |-> "json", data |-> list]

\* load_favorites(): [] without the file and when json.load raises
load_favorites(f) == IF f.kind = "json" THEN f.data ELSE <<>>

\* `code in favorites`
InList(code, favorites) == \E i \in 1..Len(favorites) : favorites[i] = code

\* favorites.remove(code): the list without the first occurrence of code
RECURSIVE ListRemove(_, _)
ListRemove(favorites, code) ==
    IF favorites = <<>> THEN <<>>
    ELSE IF Head(favorites) = code THEN Tail(favorites)
    ELSE <<Head(favorites)>> \o ListRemove(Tail(favorites), code)

\* the code add_favorite would look for and store without code.upper()
FavCodeAsGiven(code) == code

\* code = code.upper() in add_favorite and remove_favorite
FavCode(code) == Upper(code)

(* ------------------------------------------------------------------ *)
(* main                                                                 *)
(* ------------------------------------------------------------------ *)

\* the options main tests with the airport code first
CommandsAirportFirst ==
    <<"airport_code", "weather_favorites", "add_favorite", "remove_favorite",
      "list_favorites", "update_airports", "list_airports", "setup", "search",
      "add_airport">>

\* the options main tests, in the order of its if statements
Commands ==
    <<"weather_favorites", "add_favorite", "remove_favorite", "list_favorites",
      "update_airports", "list_airports", "setup", "search", "add_airport",
      "airport_code">>

\* the options that take a value; the others are store_true flags
ValueOptions == {"add_favorite", "remove_favorite", "search", "airport_code"}

\* `if args.<option>:` is false for False, for None and for ''
Given(a, option) ==
    IF option \in ValueOptions
    THEN a[option] # None /\ a[option] # <<>>
    ELSE a[option]

\* the index in Commands of the first option whose test succeeds, 0 if
\* every test fails
Dispatch(a) ==
    IF \E i \in 1..Len(Commands) : Given(a, Commands[i])
    THEN CHOOSE i \in 1..Len(Commands) :
            /\ Given(a, Commands[i])
            /\ \A j \in 1..(i - 1) : ~Given(a, Commands[j])
    ELSE 0

\* no Tee was made
NoTee == [file |-> "none"]

\* Tee.__init__: the file is open, sys.stdout is kept and replaced
OpenTee(saved) == [file |-> "open", stdout |-> saved]

\* sys.stdout after Tee.close()
StdoutAfterClose(t, current) == t.stdout

(* ------------------------------------------------------------------ *)
(* Inputs                                                               *)
(* ------------------------------------------------------------------ *)

\* weather codes as the forecast response can hold them: the integers of
\* a range, 1.5, -0.5 and 999.5, NaN and Infinity (both are accepted by
\* json.loads, and a literal like 1e999 reads as Infinity), strings, null
\* and a list
ClassifyInputs ==
    {Num(v) : v \in (-3)..MaxCode}
    \cup {Frac(3, 2), Frac(-1, 2), Frac(1999, 2), NaN, Inf, JNull, [t |-> "list"]}
    \cup {JStr(v) : v \in {<<>>, <<"a", "b", "c">>, <<"6", "1">>, <<" ", "0", " ">>,
                           <<"-", "1">>, <<"1", ".", "5">>}}

\* weather strings: icons, signs or nothing, then a space, a tab, two
\* spaces or nothing, then a word, two words or nothing
Tokens ==
    {p \o g \o w :
        p \in {<<>>, SunCloud, Sun, <<"U+26C5", "U+26C8">>, <<"+">>, <<"a", "U+26C5">>},
        g \in {<<>>, <<" ">>, <<"\t">>, <<" ", " ">>},
        w \in {<<>>, Clear, PartlyCloudy, <<"5">>, <<"P", "a", "r", "t", "l", "y">>}}

\* the values of one day of the 'daily' object, numbers as str() prints them
Day(date, code, tmax, tmin, precip, sunrise, sunset) ==
    [date |-> date, code |-> code, tmax |-> tmax, tmin |-> tmin,
     precip |-> precip, sunrise |-> sunrise, sunset |-> sunset]

\* sample days: a clear day; a partly cloudy day whose date, high and rain
\* are wider than their columns' minimum and whose sun times are null and
\* empty; a rainy day; a day with a code the classifier does not know,
\* short texts and a tab in its date
SampleDays ==
    <<Day(<<"2", "0", "2", "4", "-", "0", "1", "-", "0", "1">>, 0, <<"7", "1", ".", "2">>, <<"5", "0", ".", "1">>, <<"0", ".", "0">>,
          <<"2", "0", "2", "4", "-", "0", "1", "-", "0", "1", "T", "0", "6", ":", "3", "0">>, <<"2", "0", "2", "4", "-", "0", "1", "-", "0", "1", "T", "1", "7", ":", "4", "5">>),
      Day(<<"2", "0", "2", "4", "-", "0", "1", "-", "0", "2", "T", "0", "0", ":", "0", "0">>, 1, <<"1", "0", "0", "0", "0", "0", ".", "5">>, <<"-", "3", ".", "0">>,
          <<"1", "2", "3", "4", "5", ".", "6", "7">>, None, <<>>),
      Day(<<"2", "0", "2", "4", "-", "0", "1", "-", "0", "3">>, 61, <<"6", "0", ".", "0">>, <<"4", "8", ".", "9">>, <<"4", ".", "2">>,
          <<"2", "0", "2", "4", "-", "0", "1", "-", "0", "3", "T", "0", "6", ":", "3", "1">>, <<"2", "0", "2", "4", "-", "0", "1", "-", "0", "3", "T", "1", "7", ":", "4", "7">>),
      Day(<<"1", "\t", "4">>, 999, <<"7">>, <<"N", "o", "n", "e">>, <<"0">>, <<"6", ":", "3", "2">>, <<"T">>)>>

\* the 'daily' object of days ds whose sunrise list lacks its last cut days
Daily(ds, cut) ==
    [time |-> [i \in 1..Len(ds) |-> ds[i].date],
     weathercode |-> [i \in 1..Len(ds) |-> ds[i].code],
     tmax |-> [i \in 1..Len(ds) |-> ds[i].tmax],
     tmin |-> [i \in 1..Len(ds) |-> ds[i].tmin],
     precip |-> [i \in 1..Len(ds) |-> ds[i].precip],
     sunrise |-> [i \in 1..Max2(0, Len(ds) - cut) |-> ds[i].sunrise],
     sunset |-> [i \in 1..Len(ds) |-> ds[i].sunset]]

\* one day more than the most --days is clamped to
LongSeries == [i \in 1..(ClampDays(MaxDaysArg) + 1) |-> IF i % 2 = 0 THEN SampleDays[1] ELSE SampleDays[3]]

Dailies ==
    {Daily(ds, cut) : ds \in UNION {[1..k -> {SampleDays[i] : i \in DOMAIN SampleDays}] :
                                 k \in 0..MaxDays},
                      cut \in {0, 1}}
    \cup {Daily(LongSeries, 0)}

\* --days values below, inside and above the supported range
DaysArgs == {-1, 0, 1, 2, 3, ClampDays(MaxDaysArg), ClampDays(MaxDaysArg) + 1, MaxDaysArg}

\* codes given to --add-favorite and --remove-favorite
FavInputs ==
    {<<"a", "b">>, <<"A", "B">>, <<"A", "b">>, <<"c", "d">>, <<"C", "D">>,
     <<"e", "1">>}

\* what parse_args can return: a flag is given or not, an option with a
\* value is not given, '' or a text; bare is a command line without
\* arguments
ArgSets ==
    LET OptionValues == {None, <<>>, <<"X">>} IN
    {a \in [help : BOOLEAN, debug : BOOLEAN, bare : BOOLEAN,
            weather_favorites : BOOLEAN, add_favorite : OptionValues,
            remove_favorite : OptionValues, list_favorites : BOOLEAN,
            update_airports : BOOLEAN, list_airports : BOOLEAN,
            setup : BOOLEAN, search : OptionValues, add_airport : BOOLEAN,
            airport_code : OptionValues] :
        a.bare =>
            /\ ~a.help /\ ~a.debug
            /\ \A i \in 1..Len(Commands) :
                   IF Commands[i] \in ValueOptions
                   THEN a[Commands[i]] = None ELSE ~a[Commands[i]]}

\* a well-formed CSV row without codes
BaseRow ==
    [icao_code |-> <<>>, iata_code |-> <<>>, name |-> <<"N">>,
     municipality |-> <<"T">>, iso_country |-> <<>>, iso_region |-> <<>>,
     local_code |-> <<>>, gps_code |-> <<>>, elevation_ft |-> <<>>,
     type |-> <<>>, scheduled_service |-> <<>>,
     latitude_deg |-> <<"1">>, longitude_deg |-> <<"2">>]

\* well-formed rows over a few codes
CodeRows ==
    {[BaseRow EXCEPT !.icao_code = c[1], !.iata_code = c[2], !.local_code = c[3]] :
        c \in {<<>>, <<"A", "B">>, <<"c", "d">>}
           \X {<<>>, <<"A", "B">>, <<"C", "D">>}
           \X {<<>>, <<"a", "b">>}}
    \cup
    {[BaseRow EXCEPT !.icao_code = <<"A", "B">>, !.gps_code = <<"C", "D">>],
     [BaseRow EXCEPT !.local_code = <<"C", "D">>, !.gps_code = <<"E", "F">>],
     [BaseRow EXCEPT !.icao_code = <<" ", "A", "B">>],
     [BaseRow EXCEPT !.iata_code = <<"A", "B">>, !.latitude_deg = <<" ", "1", " ">>,
                     !.elevation_ft = <<"5">>]}

\* rows with something wrong
OddRows ==
    {[BaseRow EXCEPT !.icao_code = <<"A", "B">>, !.name = <<>>],
     [BaseRow EXCEPT !.icao_code = <<"A", "B">>, !.name = <<" ">>],
     [BaseRow EXCEPT !.icao_code = <<"A", "B">>, !.latitude_deg = <<"x">>],
     [BaseRow EXCEPT !.icao_code = <<"A", "B">>, !.latitude_deg = <<>>],
     [BaseRow EXCEPT !.icao_code = <<"A", "B">>, !.longitude_deg = None],
     [BaseRow EXCEPT !.icao_code = <<"A", "B">>, !.latitude_deg = <<"n", "a", "n">>],
     [BaseRow EXCEPT !.icao_code = <<"C", "D">>, !.longitude_deg = <<"I", "n", "f">>],
     [BaseRow EXCEPT !.icao_code = <<"A", "B">>, !.elevation_ft = <<"i", "n", "f">>],
     [BaseRow EXCEPT !.icao_code = <<"A", "B">>, !.elevation_ft = <<"x">>],
     [BaseRow EXCEPT !.icao_code = <<"A", "B">>, !.local_code = None, !.gps_code = None]}

\* the rows the CSV feed may hold
Rows == CodeRows \cup OddRows

\* the airport codes asked for
Queries == {<<>>, <<"A">>, <<"A", "B">>, <<"a", "b">>, <<"a", "B">>, <<"C", "D">>,
            <<"A", "B", "C">>}

\* the search queries
SearchQueries == {<<>>, <<"b">>, <<"B", " ", "n">>, <<"b", "n">>, <<"n", " ", "t">>,
                  <<"z">>}

\* what the user types at the prompts of add_custom_airport
CodeInputs == {<<>>, <<"a", "b">>, <<" ", "C", "D", " ">>, <<"A", "B", "C">>,
               <<"a", "b", "c", "d">>}
NameInputs == {<<"M">>}
CityInputs == {<<" ", "T">>}
LatInputs == {<<"3">>, <<"x">>, <<"n", "a", "n">>}
LonInputs == {<<"4">>}

\* A record as a pass of update_airports stores it
SampleRecord(icao, iata, local_code) ==
    RowRecord([BaseRow EXCEPT !.icao_code = icao, !.iata_code = iata,
                              !.local_code = local_code])

\* airports.json as the program may find it: absent, unreadable, written
\* by update_airports, or written by hand
InitFiles ==
    {FileAbsent,
     FileGarbage,
     FileJson(EmptyDict),
     save_airports(RegisterRow(EmptyDict,
        [BaseRow EXCEPT !.icao_code = <<"A", "B">>, !.iata_code = <<"C", "D">>])),
     save_airports(RegisterRow(RegisterRow(EmptyDict,
        [BaseRow EXCEPT !.icao_code = <<"A", "B", "C", "D">>,
                        !.iata_code = <<"A", "B", "C">>,
                        !.local_code = <<"a", "b">>]),
        [BaseRow EXCEPT !.icao_code = <<"C", "D">>, !.name = <<"B", "N">>])),
     FileJson(<<[k |-> <<"a", "b">>,
                 v |-> ListEntry(<<<<"N">>, <<"T">>, Num(1), JStr(<<"2">>)>>)],
                [k |-> <<"C", "D">>,
                 v |-> DictEntry([name |-> <<"M">>, lat |-> JStr(<<"1">>)])],
                [k |-> <<"E", "F">>, v |-> OtherEntry],
                [k |-> <<"A", "B">>,
                 v |-> SampleRecord(<<"A", "B">>, <<>>, <<>>)]>>),
     FileJson(<<[k |-> <<"A", "B">>, v |-> SampleRecord(<<"A", "B">>, <<"C", "D">>, <<>>)],
                [k |-> <<"C", "D">>, v |-> SampleRecord(<<"A", "B">>, <<"C", "D">>, <<>>)],
                [k |-> <<"E", "F">>,
                 v |-> DictEntry([name |-> <<"M">>, lat |-> JNull, lon |-> Num(2)])]>>),
     FileJson(<<[k |-> <<"A", "B">>, v |-> SampleRecord(<<"A", "B">>, <<"C", "D">>, <<>>)],
                [k |-> <<"C", "D">>, v |-> SampleRecord(<<"A", "B">>, <<"C", "D">>, <<>>)],
                [k |-> <<"a", "b">>,
                 v |-> ListEntry(<<<<"M">>, <<"T">>, Num(1), Num(2)>>)]>>),
     FileJson(<<[k |-> <<"A", "B">>, v |-> SampleRecord(<<"A", "B">>, <<>>, <<>>)],
                [k |-> <<"E", "F">>,
                 v |-> ListEntry(<<<<"M">>, <<>>, JStr(<<"x">>), Num(2)>>)]>>)}

(* ------------------------------------------------------------------ *)
(* State                                                                *)
(* ------------------------------------------------------------------ *)

VARIABLES
    file,       \* airports.json
    pc,         \* "idle", or "rows" inside the loop of update_airports
    airports,   \* the local dict of update_airports
    rows,       \* the rows the running or last pass has read
    built,      \* "none", "saved" or "failed": how the last pass ended
    adds,       \* add_custom_airport runs so far
    out,        \* what the last command did
    wcode,      \* the weather code handed to the classifier
    wemoji,     \* its with_emoji argument
    label,      \* the label it returned, <<>> before the call
    cin,        \* a value of any type handed to the classifier
    cout,       \* how that call ended: not called, a label, or an exception
    token,      \* a weather string handed to the icon/description split
    split,      \* the icon and description the split produced
    series,     \* the 'daily' object of the forecast response
    days_arg,   \* --days as given on the command line
    no_emoji,   \* --no-emoji
    vs16,       \* whether the installed wcwidth widens a glyph followed by U+FE0F
    table,      \* the forecast table as printed
    favfile,    \* favorites.json
    favlast,    \* per code, the last favorites command that named it
    favout,     \* what the last favorites command did
    args,       \* the parsed command line of main
    mpc,        \* where main is
    ran,        \* the handlers main has called
    stdout,     \* what sys.stdout is bound to
    tee         \* the debug log file: "none", "open" or "closed"

vars ==
    <<file, pc, airports, rows, built, adds, out, wcode, wemoji, label,
      cin, cout, token, split, series, days_arg, no_emoji, vs16, table,
      favfile, favlast, favout, args, mpc, ran, stdout, tee>>

indexVars == <<file, pc, airports, rows, built, adds, out>>

classifyVars == <<wcode, wemoji, label>>

anyVars == <<cin, cout>>

splitVars == <<token, split>>

renderVars == <<series, days_arg, no_emoji, vs16, table>>

favVars == <<favfile, favlast, favout>>

mainVars == <<args, mpc, ran, stdout, tee>>

NoOutput == [cmd |-> "none"]

InitIndexVars ==
    /\ pc = "idle"
    /\ airports = EmptyDict
    /\ rows = <<>>
    /\ built = "none"
    /\ adds = 0
    /\ out = NoOutput

InitClassifyVars ==
    /\ wcode = 0
    /\ wemoji = TRUE
    /\ label = <<>>

Idle == [kind |-> "idle"]

InitAnyVars ==
    /\ cin = Idle
    /\ cout = Idle

InitSplitVars ==
    /\ token = <<>>
    /\ split = Idle

InitRenderVars ==
    /\ series = Idle
    /\ days_arg = 1
    /\ no_emoji = FALSE
    /\ vs16 = FALSE
    /\ table = Idle

InitFavVars ==
    /\ favfile = Idle
    /\ favlast = <<>>
    /\ favout = Idle

InitMainVars ==
    /\ args = Idle
    /\ mpc = "idle"
    /\ ran = <<>>
    /\ stdout = "console"
    /\ tee = NoTee

InitOtherVars ==
    /\ InitAnyVars
    /\ InitSplitVars
    /\ InitRenderVars
    /\ InitFavVars
    /\ InitMainVars

(* ------------------------------------------------------------------ *)
(* update_airports                                                      *)
(* ------------------------------------------------------------------ *)

\* the download succeeded and the loop starts with airports = {}
update_airports_begin ==
    /\ pc = "idle"
    /\ built = "none"
    /\ pc' = "rows"
    /\ airports' = EmptyDict
    /\ rows' = <<>>
    /\ UNCHANGED <<file, built, adds, out, classifyVars,
                   anyVars, splitVars, renderVars, favVars, mainVars>>

\* one pass of the loop body
update_airports_row(row) ==
    /\ pc = "rows"
    /\ Len(rows) < MaxRows
    /\ rows' = Append(rows, row)
    /\ \/ /\ RowRaises(row)
          /\ pc' = "idle"
          /\ built' = "failed"
          /\ UNCHANGED airports
       \/ /\ ~RowRaises(row)
          /\ RowSkipped(row)
          /\ UNCHANGED <<pc, built, airports>>
       \/ /\ ~RowRaises(row)
          /\ ~RowSkipped(row)
          /\ airports' = RegisterRow(airports, row)
          /\ UNCHANGED <<pc, built>>
    /\ UNCHANGED <<file, adds, out, classifyVars,
                   anyVars, splitVars, renderVars, favVars, mainVars>>

\* the reader is exhausted: save_airports(airports)
update_airports_end ==
    /\ pc = "rows"
    /\ file' = save_airports(airports)
    /\ pc' = "idle"
    /\ built' = "saved"
    /\ UNCHANGED <<airports, rows, adds, out, classifyVars,
                   anyVars, splitVars, renderVars, favVars, mainVars>>

(* ------------------------------------------------------------------ *)
(* Commands on the persisted index                                      *)
(* ------------------------------------------------------------------ *)

\* get_weather_by_airport(airport_code) up to the forecast request
get_weather_by_airport(airport_code) ==
    /\ pc = "idle"
    /\ LET airport == ResolveAirport(file, airport_code)
       IN  out' = [cmd |-> "weather",
                   q |-> airport_code,
                   airport |-> airport,
                   fetched |-> airport # NotFound]
    /\ UNCHANGED <<file, pc, airports, rows, built, adds, classifyVars,
                   anyVars, splitVars, renderVars, favVars, mainVars>>

\* search_airports(query)
search_airports(query) ==
    /\ pc = "idle"
    /\ LET found == SearchItems(load_airports(file), query, 1)
       IN  out' = [cmd |-> "search",
                   q |-> query,
                   results |-> found,
                   none_found |-> found = <<>>,
                   before |-> file]
    /\ UNCHANGED <<file, pc, airports, rows, built, adds, classifyVars,
                   anyVars, splitVars, renderVars, favVars, mainVars>>

\* add_custom_airport() with the five answers typed at its prompts
add_custom_airport(code_in, name_in, city_in, lat_in, lon_in) ==
    /\ pc = "idle"
    /\ adds < MaxAdds
    /\ adds' = adds + 1
    /\ LET code == Upper(Strip(code_in))
           lat == ParseFloatStr(Strip(lat_in))
           lon == ParseFloatStr(Strip(lon_in))
       IN  IF ~lat.ok \/ ~lon.ok
           THEN /\ out' = [cmd |-> "add", code |-> code, done |-> FALSE,
                           before |-> file]
                /\ UNCHANGED file
           ELSE /\ file' = save_airports(
                              Upsert(file, code,
                                     CustomRecord(code, Strip(name_in), Strip(city_in),
                                                  lat.val, lon.val)))
                /\ out' = [cmd |-> "add", code |-> code, done |-> TRUE,
                           before |-> file]
    /\ UNCHANGED <<pc, airports, rows, built, classifyVars,
                   anyVars, splitVars, renderVars, favVars, mainVars>>

(* ------------------------------------------------------------------ *)
(* The classifier                                                       *)
(* ------------------------------------------------------------------ *)

classify ==
    /\ label = <<>>
    /\ label' = weather_code_to_emoji(wcode, wemoji)
    /\ UNCHANGED <<wcode, wemoji, indexVars,
                   anyVars, splitVars, renderVars, favVars, mainVars>>

\* weather_code_to_emoji(cin, with_emoji)
classify_any(with_emoji) ==
    /\ cout = Idle
    /\ cout' = [call |-> weather_code_to_emoji_call(cin, with_emoji),
                with_emoji |-> with_emoji]
    /\ UNCHANGED <<cin, indexVars, classifyVars,
                   splitVars, renderVars, favVars, mainVars>>

\* the split of one weather string inside the loop over the days
glyph_split ==
    /\ split = Idle
    /\ split' = IconDesc(token)
    /\ UNCHANGED <<token, indexVars, classifyVars, anyVars,
                   renderVars, favVars, mainVars>>

\* main clamps --days and get_weather_by_airport prints the forecast table
\* of the response it fetched
render(temp_unit) ==
    /\ table = Idle
    /\ table' = Forecast(series, ClampDays(days_arg), temp_unit, no_emoji, vs16)
    /\ UNCHANGED <<series, days_arg, no_emoji, vs16, indexVars, classifyVars,
                   anyVars, splitVars, favVars, mainVars>>

\* add_favorite(code)
add_favorite(code) ==
    LET favorites == load_favorites(favfile)
        c == FavCode(code)
    IN  /\ favfile' = IF ~InList(c, favorites)
                      THEN FavJson(Append(favorites, c)) ELSE favfile
        /\ favlast' = [x \in DOMAIN favlast \cup {Upper(code)} |->
                          IF x = Upper(code) THEN "add" ELSE favlast[x]]
        /\ favout' = [kind |-> "add", code |-> code, before |-> favfile]
        /\ UNCHANGED <<indexVars, classifyVars, anyVars, splitVars,
                       renderVars, mainVars>>

\* remove_favorite(code)
remove_favorite(code) ==
    LET favorites == load_favorites(favfile)
        c == FavCode(code)
    IN  /\ favfile' = IF InList(c, favorites)
                      THEN FavJson(ListRemove(favorites, c)) ELSE favfile
        /\ favlast' = [x \in DOMAIN favlast \cup {Upper(code)} |->
                          IF x = Upper(code) THEN "remove" ELSE favlast[x]]
        /\ favout' = [kind |-> "remove", code |-> code, before |-> favfile]
        /\ UNCHANGED <<indexVars, classifyVars, anyVars, splitVars,
                       renderVars, mainVars>>

\* main up to the try: the usage text and return for --help and for a
\* command line without arguments
main_begin ==
    /\ mpc = "begin"
    /\ mpc' = IF args.help \/ args.bare THEN "done" ELSE "try"
    /\ UNCHANGED <<args, ran, stdout, tee, indexVars, classifyVars, anyVars,
                   splitVars, renderVars, favVars>>

\* if debug: tee = Tee(...); open() may raise before sys.stdout is touched
main_tee(opened) ==
    /\ mpc = "try"
    /\ IF args.debug /\ opened
       THEN /\ tee' = OpenTee(stdout)
            /\ stdout' = "tee"
            /\ mpc' = "dispatch"
       ELSE /\ UNCHANGED <<tee, stdout>>
            /\ mpc' = IF args.debug THEN "finally" ELSE "dispatch"
    /\ UNCHANGED <<args, ran, indexVars, classifyVars, anyVars, splitVars,
                   renderVars, favVars>>

\* the if statements on the options: the handler of the first one that is
\* given runs, and returns or raises; without one the hint is printed
main_dispatch(outcome) ==
    /\ mpc = "dispatch"
    /\ ran' = IF Dispatch(args) = 0 THEN ran
              ELSE Append(ran, [handler |-> Commands[Dispatch(args)],
                                outcome |-> outcome,
                                stdout |-> stdout])
    /\ mpc' = "finally"
    /\ UNCHANGED <<args, stdout, tee, indexVars, classifyVars, anyVars,
                   splitVars, renderVars, favVars>>

\* finally: if tee is not None: tee.close()
main_finally ==
    /\ mpc = "finally"
    /\ IF tee # NoTee
       THEN /\ stdout' = StdoutAfterClose(tee, stdout)
            /\ tee' = [tee EXCEPT !.file = "closed"]
       ELSE UNCHANGED <<stdout, tee>>
    /\ mpc' = "done"
    /\ UNCHANGED <<args, ran, indexVars, classifyVars, anyVars, splitVars,
                   renderVars, favVars>>

(* ------------------------------------------------------------------ *)
(* Specifications                                                       *)
(* ------------------------------------------------------------------ *)

\* The commands that read and change an airports.json the program finds.
Init ==
    /\ file \in InitFiles
    /\ InitIndexVars
    /\ InitClassifyVars
    /\ InitOtherVars

Next ==
    \/ \E q \in Queries : get_weather_by_airport(q)
    \/ \E q \in SearchQueries : search_airports(q)
    \/ \E c \in CodeInputs, n \in NameInputs, t \in CityInputs,
          la \in LatInputs, lo \in LonInputs : add_custom_airport(c, n, t, la, lo)

Spec == Init /\ [][Next]_vars

\* One pass of update_airports on a fresh installation.
InitBuild ==
    /\ file = FileAbsent
    /\ InitIndexVars
    /\ InitClassifyVars
    /\ InitOtherVars

NextBuild ==
    \/ update_airports_begin
    \/ \E row \in Rows : update_airports_row(row)
    \/ update_airports_end

SpecBuild == InitBuild /\ [][NextBuild]_vars

\* The classifier on a weather code of any JSON type.
InitAny ==
    /\ file = FileAbsent
    /\ InitIndexVars
    /\ InitClassifyVars
    /\ cin \in ClassifyInputs
    /\ cout = Idle
    /\ InitSplitVars
    /\ InitRenderVars
    /\ InitFavVars
    /\ InitMainVars

NextAny == \E e \in BOOLEAN : classify_any(e)

SpecAny == InitAny /\ [][NextAny]_vars

\* The icon/description split on a weather string.
InitSplit ==
    /\ file = FileAbsent
    /\ InitIndexVars
    /\ InitClassifyVars
    /\ InitAnyVars
    /\ token \in Tokens
    /\ split = Idle
    /\ InitRenderVars
    /\ InitFavVars
    /\ InitMainVars

NextSplit == glyph_split

SpecSplit == InitSplit /\ [][NextSplit]_vars

\* One forecast table.
InitRender ==
    /\ file = FileAbsent
    /\ InitIndexVars
    /\ InitClassifyVars
    /\ InitAnyVars
    /\ InitSplitVars
    /\ series \in Dailies
    /\ days_arg \in DaysArgs
    /\ no_emoji \in BOOLEAN
    /\ vs16 \in BOOLEAN
    /\ table = Idle
    /\ InitFavVars
    /\ InitMainVars

NextRender == \E temp_unit \in {"F", "C"} : render(temp_unit)

SpecRender == InitRender /\ [][NextRender]_vars

\* The favorites commands on an installation without favorites.
InitFav ==
    /\ file = FileAbsent
    /\ InitIndexVars
    /\ InitClassifyVars
    /\ InitAnyVars
    /\ InitSplitVars
    /\ InitRenderVars
    /\ favfile \in {FavAbsent, FavJson(<<>>)}
    /\ favlast = <<>>
    /\ favout = Idle
    /\ InitMainVars

NextFav ==
    \/ \E code \in FavInputs : add_favorite(code)
    \/ \E code \in FavInputs : remove_favorite(code)

SpecFav == InitFav /\ [][NextFav]_vars

\* One invocation of main.
InitMain ==
    /\ file = FileAbsent
    /\ InitIndexVars
    /\ InitClassifyVars
    /\ InitAnyVars
    /\ InitSplitVars
    /\ InitRenderVars
    /\ InitFavVars
    /\ args \in ArgSets
    /\ mpc = "begin"
    /\ ran = <<>>
    /\ stdout = "console"
    /\ tee = NoTee

NextMain ==
    \/ main_begin
    \/ \E opened \in BOOLEAN : main_tee(opened)
    \/ \E outcome \in {"returned", "raised"} : main_dispatch(outcome)
    \/ main_finally

SpecMain == InitMain /\ [][NextMain]_vars

\* The classifier on every code of a range.
InitClassify ==
    /\ file = FileAbsent
    /\ InitIndexVars
    /\ wcode \in (-3)..MaxCode
    /\ wemoji \in BOOLEAN
    /\ label = <<>>
    /\ InitOtherVars

NextClassify == classify

SpecClassify == InitClassify /\ [][NextClassify]_vars

(* ------------------------------------------------------------------ *)
(* Properties of update_airports                                        *)
(* ------------------------------------------------------------------ *)

\* the row reaches the four `if` statements
Registered(row) == ~RowRaises(row) /\ ~RowSkipped(row)

\* the codes a registered row carries, as the loop body normalises them
RowCodes(row) ==
    {Upper(row.icao_code), Upper(row.iata_code),
     Strip(row.local_code), Strip(row.gps_code)} \ {<<>>}

\* the rows of the pass that reached the four `if` statements
RegisteredRows == {i \in 1..Len(rows) : Registered(rows[i])}

\* C1: when two valid rows of one pass carry the same code, the key of that
\* code holds the record of the earlier row: every key of the index holds
\* the record of the first row of the pass that carries it.
C1_FirstOccurrenceWins ==
    \A key \in DictKeys(airports) :
        LET first == CHOOSE i \in RegisteredRows :
                        /\ key \in RowCodes(rows[i])
                        /\ \A j \in RegisteredRows :
                              key \in RowCodes(rows[j]) => i <= j
        IN  DictGet(airports, key) = RowRecord(rows[first])

\* the row has a non-empty ICAO code and a non-empty IATA code that differ
TwoCodes(row) ==
    /\ Upper(row.icao_code) # <<>>
    /\ Upper(row.iata_code) # <<>>
    /\ Upper(row.icao_code) # Upper(row.iata_code)

\* lookup(ICAO) and lookup(IATA) of the row both succeed, with equal records
BothResolve(row) ==
    /\ ResolveAirport(file, row.icao_code) # NotFound
    /\ ResolveAirport(file, row.iata_code) # NotFound
    /\ ResolveAirport(file, row.icao_code) = ResolveAirport(file, row.iata_code)

\* C2 as stated: after a pass, for every valid row with distinct non-empty
\* ICAO and IATA codes, lookup(ICAO) and lookup(IATA) both succeed and
\* return content-equal records.
C2_BothCodesResolve ==
    built = "saved" =>
        \A i \in RegisteredRows : TwoCodes(rows[i]) => BothResolve(rows[i])

\* no other valid row of the pass carries a code that equals, ignoring
\* letter case, the ICAO or the IATA code of row i
Unshadowed(i) ==
    \A j \in RegisteredRows \ {i} :
        \A c \in RowCodes(rows[j]) :
            Upper(c) \notin {Upper(rows[i].icao_code), Upper(rows[i].iata_code)}

\* C2 as amended: after a pass, for every valid row with distinct non-empty
\* ICAO and IATA codes neither of which is carried, in any letter case, by
\* another valid row of the pass, lookup(ICAO) and lookup(IATA) both
\* succeed and return the record of that row.
C2_BothCodesResolveUnshadowed ==
    built = "saved" =>
        \A i \in RegisteredRows :
            TwoCodes(rows[i]) /\ Unshadowed(i) =>
                /\ BothResolve(rows[i])
                /\ ResolveAirport(file, rows[i].icao_code) = RowRecord(rows[i])

\* a pass of two valid rows has ended, one of them with two codes that no
\* other row carries, the other with codes of its own
C2_Witness ==
    /\ built = "saved"
    /\ Cardinality(RegisteredRows) = 2
    /\ \E i \in RegisteredRows :
          /\ TwoCodes(rows[i])
          /\ Unshadowed(i)
          /\ \E j \in RegisteredRows \ {i} : RowCodes(rows[j]) # {}

\* the row is one the build has to drop: no name, or a latitude or
\* longitude that is missing or does not parse as a finite number
Malformed(row) ==
    \/ row.name = None
    \/ Strip(row.name) = <<>>
    \/ \E x \in {row.latitude_deg, row.longitude_deg} :
          \/ x = None
          \/ ~ParseFloatStr(x).ok
          \/ ParseFloatStr(x).val.t # "num"

\* C5: the build registers no key for a row without a name or without a
\* finite latitude and longitude, and such a row does not end the pass:
\* every record of the index has a name and finite coordinates, the index
\* is what the rows that are not malformed give, and a pass fails only on
\* a row that is not malformed.
C5_MalformedRowsDropped ==
    /\ \A key \in DictKeys(airports) :
          LET rec == DictGet(airports, key).d
          IN  rec.name # <<>> /\ rec.lat.t = "num" /\ rec.lon.t = "num"
    /\ \A i \in RegisteredRows : ~Malformed(rows[i])
    /\ built = "failed" => ~Malformed(rows[Len(rows)])

\* C7: after a pass, loading what save_airports wrote gives an index in
\* which the lookup of every code of the built index returns a record
\* content-equal to what the built index returns for that code.
C7_RoundTrip ==
    built = "saved" =>
        \A code \in DictKeys(airports) :
            Lookup(load_airports(file), code) = Lookup(airports, code)

(* ------------------------------------------------------------------ *)
(* Properties of the commands on the persisted index                    *)
(* ------------------------------------------------------------------ *)

\* the keys of the JSON object of a file
FileKeys(f) == IF f.kind = "json" THEN DictKeys(f.data) ELSE {}

\* codes to compare lookups on: the queries and every key in sight
ProbeCodes ==
    Queries \cup FileKeys(file) \cup DictKeys(load_airports(file))
    \cup (IF "before" \in DOMAIN out
          THEN FileKeys(out.before) \cup DictKeys(load_airports(out.before))
          ELSE {})

\* C3: add_custom_airport on an index that loads overwrites exactly the key
\* of the given code: the lookup of every other code gives after the
\* command what it gave before, the given code resolves to the new
\* record, and answers that do not parse change nothing.
C3_UpsertTouchesOneKey ==
    (out.cmd = "add" /\ ~LoadFails(out.before)) =>
        IF out.done
        THEN /\ \A q \in ProbeCodes :
                   Upper(q) # out.code =>
                       ResolveAirport(file, q) = ResolveAirport(out.before, q)
             /\ ResolveAirport(file, out.code) # NotFound
             /\ ResolveAirport(file, out.code).d.type
                   = <<"c", "u", "s", "t", "o", "m", "_", "a", "i", "r", "p", "o", "r", "t">>
        ELSE file = out.before

\* an airport was added under one code of an index in which a sibling code
\* of the same airport resolves
C3_Witness ==
    /\ out.cmd = "add"
    /\ out.done
    /\ ~LoadFails(out.before)
    /\ ResolveAirport(out.before, out.code) # NotFound
    /\ \E q \in ProbeCodes :
          /\ Upper(q) # out.code
          /\ ResolveAirport(out.before, q) # NotFound
          /\ ResolveAirport(out.before, q).d.icao_code
                = ResolveAirport(out.before, out.code).d.icao_code
          /\ ResolveAirport(file, q) # ResolveAirport(file, out.code)

\* C4: when airports.json exists and fails to load, add_custom_airport
\* still touches only the key of the given code: every other entry of the
\* file is in the file after the command.
C4_FailedLoadKeepsEntries ==
    (out.cmd = "add" /\ out.done /\ out.before.kind = "json" /\ LoadFails(out.before)) =>
        \A i \in 1..Len(out.before.data) :
            Upper(out.before.data[i].k) # out.code =>
                /\ file.kind = "json"
                /\ \E j \in 1..Len(file.data) :
                      /\ Upper(file.data[j].k) = Upper(out.before.data[i].k)
                      /\ file.data[j].v = out.before.data[i].v

\* the two codes have the same length and the same letters up to case
SameIgnoringCase(a, b) ==
    /\ Len(a) = Len(b)
    /\ \A i \in 1..Len(a) : a[i] = b[i] \/ UpperCh(a[i]) = b[i] \/ a[i] = UpperCh(b[i])

\* the code is a proper prefix, up to case, of a key of the index
ProperPrefixOfKey(index, q) ==
    \E i \in 1..Len(index) :
        /\ Len(q) < Len(index[i].k)
        /\ SameIgnoringCase(SubSeq(index[i].k, 1, Len(q)), q)

\* C6: a lookup returns the record stored under the key equal to the
\* uppercased query, and otherwise reports not-found without a weather
\* fetch; queries that differ in letter case only give the same result, a
\* query that is only a prefix of a key is not found, and nothing is found
\* in an empty index.
C6_LookupExactIgnoringCase ==
    out.cmd = "weather" =>
        LET index == load_airports(file)
            hits == {i \in 1..Len(index) : SameIgnoringCase(index[i].k, out.q)}
        IN  /\ hits # {} => /\ \A i \in hits : out.airport = index[i].v
                            /\ out.fetched
            /\ hits = {} => out.airport = NotFound /\ ~out.fetched
            /\ \A q2 \in Queries :
                  SameIgnoringCase(q2, out.q) => ResolveAirport(file, q2) = out.airport
            /\ (ProperPrefixOfKey(index, out.q) /\ hits = {}) => out.airport = NotFound
            /\ index = EmptyDict => out.airport = NotFound

\* a lookup in lower case found a record of an index that also has a key
\* the query is a proper prefix of
C6_Witness ==
    /\ out.cmd = "weather"
    /\ out.fetched
    /\ out.q # Upper(out.q)
    /\ \E q2 \in Queries :
          /\ ProperPrefixOfKey(load_airports(file), q2)
          /\ ResolveAirport(file, q2) = NotFound

\* the item's code and fields, lowercased, with a space between
\* neighbours
JoinedFields(item) ==
    Lower(item.k \o <<" ">> \o item.v.d.name \o <<" ">> \o item.v.d.city \o <<" ">>
          \o item.v.d.iso_country \o <<" ">> \o item.v.d.iso_region \o <<" ">>
          \o item.v.d.type \o <<" ">> \o item.v.d.scheduled_service \o <<" ">>
          \o item.v.d.local_code \o <<" ">> \o item.v.d.gps_code \o <<" ">>
          \o item.v.d.faa_lid)

\* the item's code and fields, lowercased, one after the other
ConcatenatedFields(item) ==
    Lower(item.k \o item.v.d.name \o item.v.d.city
          \o item.v.d.iso_country \o item.v.d.iso_region
          \o item.v.d.type \o item.v.d.scheduled_service
          \o item.v.d.local_code \o item.v.d.gps_code
          \o item.v.d.faa_lid)

MatchesJoined(item) == IsSubstr(Lower(out.q), JoinedFields(item))

MatchesConcatenated(item) == IsSubstr(Lower(out.q), ConcatenatedFields(item))

\* C9 as stated: search reports exactly the items of the index for which
\* the query, ignoring case, is a substring of the concatenation of code,
\* name, city, country, region, type, scheduled service and local, GPS and
\* FAA codes, in iteration order, without changing the index, and nothing
\* on an empty index.
C9_SearchConcatenation ==
    out.cmd = "search" =>
        /\ out.results = SelectSeq(load_airports(file), MatchesConcatenated)
        /\ file = out.before
        /\ load_airports(file) = EmptyDict => out.results = <<>> /\ out.none_found

\* C9 as amended: the same, with the code and the fields joined by single
\* spaces, so that a match never runs from one field into the next.
C9_SearchSpaceJoined ==
    out.cmd = "search" =>
        /\ out.results = SelectSeq(load_airports(file), MatchesJoined)
        /\ file = out.before
        /\ load_airports(file) = EmptyDict => out.results = <<>> /\ out.none_found

\* a search whose query runs over the space between code and name found
\* some items of the index and not others
C9_Witness ==
    /\ out.cmd = "search"
    /\ \E i \in 1..Len(out.q) : out.q[i] = " "
    /\ out.results # <<>>
    /\ Len(out.results) < Len(load_airports(file))

\* C8: every key of the airport index, as update_airports builds it and
\* as load_airports returns it, is a non-empty, uppercase, trimmed code.
C8_KeysNormalised ==
    \A key \in DictKeys(load_airports(file)) \cup DictKeys(airports) :
        /\ key # <<>>
        /\ key = Upper(key)
        /\ key = Strip(key)

(* ------------------------------------------------------------------ *)
(* Properties of the classifier                                         *)
(* ------------------------------------------------------------------ *)

\* the description the table of the claim gives a code
TableDescription(code) ==
    CASE code = 0 -> Clear
      [] code \in {1, 2, 3} -> PartlyCloudy
      [] code \in {45, 48} -> Fog
      [] code \in {51, 53, 55, 56, 57} -> Drizzle
      [] code \in {61, 63, 65, 66, 67, 80, 81, 82} -> Rain
      [] code \in {71, 73, 75, 77, 85, 86} -> Snow
      [] code \in {95, 96, 99} -> Thunderstorm
      [] OTHER -> Unknown

Icons == {Sun, SunCloud, FogIcon, DrizzleIcon, RainIcon, SnowIcon, StormIcon,
          QuestionIcon}

\* C10: for every integer code the classifier returns the description of
\* the table (unknown for a code outside it), after an icon and a space
\* exactly when icons are requested.
C10_ClassifierTable ==
    label # <<>> =>
        IF wemoji
        THEN \E icon \in Icons : label = icon \o <<" ">> \o TableDescription(wcode)
        ELSE label = TableDescription(wcode)

\* the classifier was handed 77 with icons requested
C10_Witness == label # <<>> /\ wcode = 77 /\ wemoji

(* ------------------------------------------------------------------ *)
(* C11                                                                  *)
(* ------------------------------------------------------------------ *)

\* an integer code the table gives a description other than unknown
InTable(x) == x.t = "num" /\ TableDescription(x.v) # Unknown

\* C11: the classifier never raises, whatever it is handed, and every
\* input that is not an integer code of the table yields the unknown label
C11_NeverFailsUnknownOutsideTable ==
    cout # Idle =>
        /\ cout.call.kind = "returned"
        /\ ~InTable(cin) =>
               cout.call.v = Label(QuestionIcon, Unknown, cout.with_emoji)

(* ------------------------------------------------------------------ *)
(* C12                                                                  *)
(* ------------------------------------------------------------------ *)

NoWhitespace(s) == \A i \in 1..Len(s) : s[i] \notin Whitespace

\* the 1-based positions of s whose code point is no symbol
NonSymbolAt(s) == {i \in 1..Len(s) : Category(s[i]) # "S"}

\* the first of them
FirstNonSymbol(s) == CHOOSE i \in NonSymbolAt(s) : \A j \in NonSymbolAt(s) : i <= j

C13_FullDescriptionWithoutIcons ==
    (table # Idle /\ no_emoji) =>
        \A i \in 1..Len(table.rows) :
            RStrip(table.rows[i][2]) = TableDescription(series.weathercode[i])

(* ------------------------------------------------------------------ *)
(* C14                                                                  *)
(* ------------------------------------------------------------------ *)

\* the sum of a sequence of numbers
RECURSIVE SumSeq(_)
SumSeq(ns) == IF ns = <<>> THEN 0 ELSE Head(ns) + SumSeq(Tail(ns))

\* the characters of a printed line: its cells and one space between them
LineChars(line) == SumSeq([i \in 1..Len(line) |-> Len(line[i])]) + Len(line) - 1

\* the terminal columns of a text: what the installed wcswidth says, the
\* number of characters where it has no answer
Columns(text) ==
    IF wcswidth(text, 1, <<>>, 0, vs16) < 0 THEN Len(text)
    ELSE wcswidth(text, 1, <<>>, 0, vs16)

\* the terminal columns of a printed line
LineColumns(line) ==
    SumSeq([i \in 1..Len(line) |-> Columns(line[i])]) + Len(line) - 1

ShownColumns ==
    IF no_emoji
    THEN <<"date", "desc", "tmax", "tmin", "precip", "sunrise", "sunset">>
    ELSE <<"date", "icon", "desc", "tmax", "tmin", "precip", "sunrise", "sunset">>

\* the minimum width the claim gives each column
MinimumWidth ==
    [date |-> 12, icon |-> 6, desc |-> 22, tmax |-> 8, tmin |-> 8,
     precip |-> 8, sunrise |-> 8, sunset |-> 8]

\* the cell as printed is the cell with nothing but spaces added, on the
\* right for date, icon and description and on the left for the others
PaddedOnly(printed, cell, column) ==
    \E k \in 0..Len(printed) :
        printed = IF column \in {"date", "icon", "desc"}
                  THEN cell \o Spaces(k) ELSE Spaces(k) \o cell

\* C15: every column is as wide as the widest of its cells, its header
\* label and its minimum (date 12, icon 6, description 22, the others 8),
\* and every printed cell is the whole cell padded to exactly that width
C15_ColumnWidths ==
    table # Idle =>
        \A k \in 1..Len(ShownColumns) :
            LET c == ShownColumns[k] IN
            /\ table.width[c] =
                  MaxOf({Columns(table.cells[i][c]) : i \in 1..Len(table.cells)}
                        \cup {Columns(Headers[c]), MinimumWidth[c]})
            /\ \A i \in 1..Len(table.rows) :
                  /\ PaddedOnly(table.rows[i][k], table.cells[i][c], c)
                  /\ Columns(table.rows[i][k]) = table.width[c]

\* a table with icons whose date column is wider than its minimum because
\* of one of its two dates
C15_Witness ==
    /\ table # Idle
    /\ ~no_emoji
    /\ Len(table.rows) = 2
    /\ table.width.date > 12
    /\ Columns(table.cells[1].date) < table.width.date
    /\ table.width.tmax > 8

(* ------------------------------------------------------------------ *)
(* C16                                                                  *)
(* ------------------------------------------------------------------ *)

\* the printed icon cell of row i without its padding (icons shown)
IconCell(i) == RStrip(table.rows[i][2])

\* the days the table prints
Printed == 1..Min2(ClampDays(days_arg), Len(series.time))

\* one data row per printed day, in order, with the day's date
OneRowPerDay ==
    /\ Len(table.rows) = Len(table.cells)
    /\ DOMAIN table.rows = Printed
    /\ \A i \in Printed : RStrip(table.rows[i][1]) = RStrip(series.time[i])

\* C16 as stated: with icons, the icon cell of a day is empty if its code
\* is unknown and non-empty if its code is in the table; one row per day
C16_UnknownDayEmptyIcon ==
    (table # Idle /\ ~no_emoji) =>
        /\ OneRowPerDay
        /\ \A i \in Printed :
               (IconCell(i) = <<>>) <=> (TableDescription(series.weathercode[i]) = Unknown)

\* C16: with icons, the icon cell of every day is non-empty, the question
\* mark for a day whose code is unknown and another icon for a day whose
\* code is in the table; one row per day
C16_EveryDayHasIcon ==
    (table # Idle /\ ~no_emoji) =>
        /\ OneRowPerDay
        /\ \A i \in Printed :
               /\ IconCell(i) \in Icons
               /\ (IconCell(i) = QuestionIcon)
                      <=> (TableDescription(series.weathercode[i]) = Unknown)

\* a table with icons of a day of code 999 and a day of code 0
C16_Witness ==
    /\ table # Idle
    /\ ~no_emoji
    /\ Len(table.rows) = 2
    /\ series.weathercode[1] = 999
    /\ series.weathercode[2] = 0
    /\ IconCell(1) = QuestionIcon

(* ------------------------------------------------------------------ *)
(* C17                                                                  *)
(* ------------------------------------------------------------------ *)

\* dayCount brought into 1..16
Clamped(dayCount) == IF dayCount < 1 THEN 1 ELSE IF dayCount > 16 THEN 16 ELSE dayCount

\* C17: the table has min(clamp(dayCount, 1, 16), number of dates) data
\* rows; of a series without days it has the header and the rule and no
\* data row
C17_RowCount ==
    table # Idle =>
        /\ Len(table.rows) =
              IF Clamped(days_arg) < Len(series.time)
              THEN Clamped(days_arg) ELSE Len(series.time)
        /\ Len(series.time) = 0 =>
              /\ table.rows = <<>>
              /\ Len(table.header) = Len(ShownColumns)
              /\ table.rule = LineChars(table.header)

\* --days above 16 on a series of more than 16 days printed 16 rows
C17_Witness ==
    /\ table # Idle
    /\ days_arg > 16
    /\ Len(series.time) > 16
    /\ Len(table.rows) = 16

\* --days below 1 on a series of two days printed one row
C17_WitnessBelow ==
    /\ table # Idle
    /\ days_arg < 1
    /\ Len(series.time) = 2
    /\ Len(table.rows) = 1

(* ------------------------------------------------------------------ *)
(* C18                                                                  *)
(* ------------------------------------------------------------------ *)

\* the sum of the widths of the printed columns
ShownWidths == SumSeq([k \in 1..Len(ShownColumns) |-> table.width[ShownColumns[k]]])

\* C18: without icons the header and every data row are the seven
\* columns date, description, high, low, precip, sunrise and sunset, and
\* the rule is as long as their widths and 6 spaces; with icons they are
\* eight columns, the icon second, and the rule is their widths and 7
C18_ColumnSet ==
    table # Idle =>
        /\ Len(ShownColumns) = IF no_emoji THEN 7 ELSE 8
        /\ Len(table.header) = Len(ShownColumns)
        /\ \A k \in 1..Len(ShownColumns) :
               Strip(table.header[k]) = Headers[ShownColumns[k]]
        /\ table.rule = ShownWidths + IF no_emoji THEN 6 ELSE 7
        /\ \A i \in 1..Len(table.rows) :
               /\ Len(table.rows[i]) = Len(ShownColumns)
               /\ \A k \in 1..Len(ShownColumns) :
                      PaddedOnly(table.rows[i][k], table.cells[i][ShownColumns[k]],
                                 ShownColumns[k])

\* a table without icons of a day whose first word went to the icon list
C18_Witness ==
    /\ table # Idle
    /\ no_emoji
    /\ Len(table.rows) = 2
    /\ Len(table.rows[1]) = 7
    /\ table.cells[1].icon # <<>>

(* ------------------------------------------------------------------ *)
(* C19                                                                  *)
(* ------------------------------------------------------------------ *)

\* the persisted list
Persisted == load_favorites(favfile)

\* C19: the persisted list holds no code twice and uppercase codes only, a
\* code is in it exactly if the last command that named it, in any letter
\* case, was an add, and an add of a code already in the list and a
\* remove of a code not in it leave the list as it was
C19_FavoritesSet ==
    /\ \A i, j \in 1..Len(Persisted) : Persisted[i] = Persisted[j] => i = j
    /\ \A i \in 1..Len(Persisted) : Persisted[i] = Upper(Persisted[i])
    /\ \A code \in FavInputs :
           InList(Upper(code), Persisted)
              <=> (Upper(code) \in DOMAIN favlast /\ favlast[Upper(code)] = "add")
    /\ (favout # Idle /\ favout.kind = "add"
           /\ InList(Upper(favout.code), load_favorites(favout.before)))
          => favfile = favout.before
    /\ (favout # Idle /\ favout.kind = "remove"
           /\ ~InList(Upper(favout.code), load_favorites(favout.before)))
          => favfile = favout.before

\* "ab" was added to a list that held AB already
C19_Witness ==
    /\ favout # Idle
    /\ favout.kind = "add"
    /\ favout.code = <<"a", "b">>
    /\ InList(<<"A", "B">>, load_favorites(favout.before))
    /\ Len(Persisted) = 2

(* ------------------------------------------------------------------ *)
(* C20                                                                  *)
(* ------------------------------------------------------------------ *)

\* the order the claim gives the commands
ClaimedOrder ==
    <<"weather_favorites", "add_favorite", "remove_favorite", "list_favorites",
      "update_airports", "list_airports", "setup", "search", "add_airport",
      "airport_code">>

\* an option is set if it is a flag that was given or has a non-empty value
IsSet(option) ==
    IF option \in {"add_favorite", "remove_favorite", "search", "airport_code"}
    THEN args[option] \notin {None, <<>>}
    ELSE args[option]

\* C20: main runs at most one handler, the first in the claimed order whose
\* option is set (given as a flag or with a non-empty value), and with
\* --debug the handler runs with stdout redirected and, however main ends,
\* the log file is closed again and stdout is what it was before
C20_OneHandlerAndTeeClosed ==
    /\ Len(ran) <= 1
    /\ \A k \in 1..Len(ran) :
           \E i \in 1..Len(ClaimedOrder) :
               /\ ran[k].handler = ClaimedOrder[i]
               /\ IsSet(ClaimedOrder[i])
               /\ \A j \in 1..(i - 1) : ~IsSet(ClaimedOrder[j])
               /\ args.debug => ran[k].stdout = "tee"
    /\ mpc = "done" =>
           /\ stdout = "console"
           /\ tee.file # "open"
           /\ (~args.help /\ ~args.bare /\ \E i \in 1..Len(ClaimedOrder) : IsSet(ClaimedOrder[i])
                  /\ (args.debug => tee.file = "closed"))
               => Len(ran) = 1

\* with --debug, --search '' and an airport code, the weather handler ran
\* and raised, and the log file was closed
C20_Witness ==
    /\ mpc = "done"
    /\ args.debug
    /\ args.search = <<>>
    /\ args.list_airports = FALSE
    /\ Len(ran) = 1
    /\ ran[1].handler = "airport_code"
    /\ ran[1].outcome = "raised"
    /\ tee.file = "closed"

=============================================================================
